---- MODULE Spec2Model ----
(***************************************************************************)
(* Model of gae_dashboard/dashboard_report.py: the chart decoder, the      *)
(* field-name lookup, the aggregation of named series by time, the         *)
(* watermark file and one run of main() (a "fetch cycle").                 *)
(*                                                                         *)
(* Conventions                                                             *)
(*   - a Python str is a sequence of one-character strings;                *)
(*   - a Python value that may be None is a sequence of length 0 or 1;     *)
(*   - a Python dict is a function whose DOMAIN is the set of keys;        *)
(*   - a function that may raise returns [ok |-> FALSE, err |-> name] or   *)
(*     [ok |-> TRUE, val |-> value];                                       *)
(*   - a float with 4 significant digits is <<m, e>>, meaning m * 10^e     *)
(*     with 1000 <= |m| <= 9999, and <<0, 0>> for 0.0; inf, -inf and nan   *)
(*     are <<1, 999>>, <<-1, 999>> and <<0, 999>>;                         *)
(*   - any other float is [neg, m, e], meaning (-1)^neg * m * 2^e with     *)
(*     the mantissa m a sequence of limbs;                                 *)
(*   - CHOOSE one \in {f(x) : x \in {e}} : TRUE is f(e), with e evaluated   *)
(*     once: TLC evaluates the argument of a definition wherever the       *)
(*     definition uses it.                                                 *)
(***************************************************************************)
EXTENDS Integers, Sequences, FiniteSets, TLC

VARIABLES
    db,                       \* the file _LAST_RECORD_DB: <<>> (missing) or <<time_t>>
    pc,                       \* position of the running main(), "idle" between runs,
                              \* "done" when it has returned or raised
    input_json,               \* main's argument: the batch of chart descriptors
    utc_timestamp,            \* main's argument: download time (time_t)
    dry_run,                  \* main's argument
    time_t_of_latest_record,  \* main's local: the watermark as read
    named_series_by_module,   \* parse_and_commit_record's local
    time_delta,               \* parse_and_commit_record's local (seconds), <<>> while unset
    records_by_module,        \* parse_and_commit_record's local
    records,                  \* parse_and_commit_record's local, and its return value
    todo,                     \* modules the delivery loop has still to visit, in dict order
    sink,                     \* the calls made to maybe_send_to_graphite in this cycle
    result,                   \* "none", "running", "ok" or "failed"
    error,                    \* the exception that ended the cycle, "" if none
    db0,                      \* history: db when the cycle started
    n_reads,                  \* history: reads of the watermark file in this cycle
    n_writes,                 \* history: writes of the watermark file in this cycle
    agg_in,                   \* aggregate_series_by_time's argument (specification SpecAgg)
    agg_out,                  \* its result, <<>> before the call
    dec_token,                \* an x-axis token (specification SpecDecode)
    dec_window,               \* an index into time_windows
    dec_out,                  \* the decoded elapsed seconds, <<>> before the call
    rerun,                    \* history: this run repeats the previous run's arguments
    lk_in,                    \* <<chart_num, series_label>> (specification SpecLookup)
    lk_out,                   \* the resolved field name or the error, <<>> before the call
    ax_in,                    \* get_axis_labels's argument (specification SpecAxis)
    ax_out,                   \* its result, <<>> before the call
    un_in,                    \* unpack_chart_data's chart (specification SpecUnpack)
    un_out                    \* what the generator did, <<>> before it is consumed

vars == <<db, pc, input_json, utc_timestamp, dry_run, time_t_of_latest_record,
          named_series_by_module, time_delta, records_by_module, records, todo,
          sink, result, error, db0, n_reads, n_writes,
          agg_in, agg_out, dec_token, dec_window, dec_out,
          rerun, lk_in, lk_out, ax_in, ax_out, un_in, un_out>>

cycle_vars == <<db, pc, input_json, utc_timestamp, dry_run, time_t_of_latest_record,
                named_series_by_module, time_delta, records_by_module, records, todo,
                sink, result, error, db0, n_reads, n_writes>>

agg_vars == <<agg_in, agg_out>>

dec_vars == <<dec_token, dec_window, dec_out>>

lk_vars == <<lk_in, lk_out>>

ax_vars == <<ax_in, ax_out>>

un_vars == <<un_in, un_out>>

pure_vars == <<agg_vars, dec_vars, lk_vars, ax_vars, un_vars>>

----------------------------------------------------------------------------
(* Python helpers *)

None == <<>>

Some(v) == <<v>>

Ok(v) == [ok |-> TRUE, val |-> v]

Raise(e) == [ok |-> FALSE, err |-> e]

\* the series label of a chart without "chdl" (Python's None as a dict key)
NoLabel == <<"None">>

Range(s) == {s[i] : i \in DOMAIN s}

\* seq[i] of Python: negative indices count from the end
PyIndex(s, i) ==
    IF i >= 0 /\ i < Len(s) THEN Ok(s[i + 1])
    ELSE IF i < 0 /\ -i <= Len(s) THEN Ok(s[Len(s) + i + 1])
    ELSE Raise("IndexError")

\* str.split(sep) with a one-character separator
RECURSIVE Split(_, _)
Split(s, sep) ==
    IF s = <<>> THEN << <<>> >>
    ELSE LET rest == Split(Tail(s), sep)
         IN  IF Head(s) = sep THEN << <<>> >> \o rest
             ELSE << <<Head(s)>> \o Head(rest) >> \o Tail(rest)

Digits == <<"0", "1", "2", "3", "4", "5", "6", "7", "8", "9">>

IsDigit(c) == c \in Range(Digits)

DigitValue(c) == (CHOOSE i \in DOMAIN Digits : Digits[i] = c) - 1

RECURSIVE Pow10(_)
Pow10(k) == IF k = 0 THEN 1 ELSE 10 * Pow10(k - 1)

RECURSIVE DigitsValue(_)
DigitsValue(s) ==
    IF s = <<>> THEN 0
    ELSE 10 * DigitsValue(SubSeq(s, 1, Len(s) - 1)) + DigitValue(s[Len(s)])

\* what str.strip(), int() and float() take for whitespace: the space, "\n",
\* "\t", "\r", the form feed and the vertical tab, the last written as the
\* character itself
Whitespace == {" ", "\n", "\t", "\r", "\f", ""}

\* str.strip()
RECURSIVE Strip(_)
Strip(s) ==
    IF s = <<>> THEN s
    ELSE IF Head(s) \in Whitespace THEN Strip(Tail(s))
    ELSE IF s[Len(s)] \in Whitespace THEN Strip(SubSeq(s, 1, Len(s) - 1))
    ELSE s

\* int(text) of Python 2: whitespace is skipped before an optional sign, between
\* the sign and the digits, and after the digits
ParseInt(s) ==
    CHOOSE one \in
        {IF body # <<>> /\ \A i \in DOMAIN body : IsDigit(body[i])
         THEN Ok(IF Head(t) = "-" THEN -DigitsValue(body) ELSE DigitsValue(body))
         ELSE Raise("ValueError") :
         t \in {Strip(s)},
         body \in {IF Strip(s) # <<>> /\ Head(Strip(s)) \in {"-", "+"}
                   THEN Strip(Tail(Strip(s))) ELSE Strip(s)}} : TRUE

----------------------------------------------------------------------------
(* The module's tables *)

Single(name) == [single |-> TRUE, name |-> name, map |-> <<>>]

Multi(map) == [single |-> FALSE, name |-> "", map |-> map]

\* _label_to_field_map, an OrderedDict: the sequence of its (key, value) items
label_to_field_map == <<
    [label |-> "Summary",
     field |-> Multi((<<"C", "l", "i", "e", "n", "t", " ", "(", "4", "x", "x", ")">>
                      :> "client_errors_per_second") @@
              (<<"S", "e", "r", "v", "e", "r", " ", "(", "5", "x", "x", ")">>
                      :> "server_errors_per_second") @@
              (<<"T", "o", "t", "a", "l", " ", "R", "e", "q", "u", "e", "s", "t", "s">>
                      :> "requests_per_second"))],
    [label |-> "Requests by Type/Second",
     field |-> Multi((<<"S", "t", "a", "t", "i", "c", " ", "R", "e", "q", "u", "e", "s", "t", "s">>
                      :> "static_requests_per_second") @@
              (<<"D", "y", "n", "a", "m", "i", "c", " ", "R", "e", "q", "u", "e", "s", "t", "s">>
                      :> "dynamic_requests_per_second") @@
              (<<"C", "a", "c", "h", "e", "d", " ", "R", "e", "q", "u", "e", "s", "t", "s">>
                      :> "cached_requests_per_second") @@
              (<<"P", "a", "g", "e", "S", "p", "e", "e", "d", " ", "R", "e", "q", "u", "e", "s", "t", "s">>
                      :> "pagespeed_requests_per_second"))],
    [label |-> "Latency",
     field |-> Single("milliseconds_per_dynamic_request")],
    [label |-> "Loading Latency",
     field |-> Single("milliseconds_per_loading_request")],
    [label |-> "Error Details",
     field |-> Multi((<<"C", "l", "i", "e", "n", "t", " ", "(", "4", "x", "x", ")">>
                      :> "client_errors_per_second") @@
              (<<"S", "e", "r", "v", "e", "r", " ", "(", "5", "x", "x", ")">>
                      :> "server_errors_per_second") @@
              (<<"Q", "u", "o", "t", "a", " ", "D", "e", "n", "i", "a", "l", "s">>
                      :> "quota_denials_per_second") @@
              (<<"D", "o", "S", " ", "A", "P", "I", " ", "D", "e", "n", "i", "a", "l", "s">>
                      :> "dos_api_denials_per_second"))],
    [label |-> "Traffic (Bytes/Second)",
     field |-> Multi((<<"S", "e", "n", "t">> :> "bytes_sent_per_second") @@
              (<<"R", "e", "c", "e", "i", "v", "e", "d">> :> "bytes_received_per_second"))],
    [label |-> "Utilization",
     field |-> Multi((<<"T", "o", "t", "a", "l", " ", "C", "P", "U">>
                      :> "total_cpu_seconds_used_per_second") @@
              (<<"A", "P", "I", " ", "C", "a", "l", "l", "s", " ", "C", "P", "U">>
                      :> "api_cpu_seconds_used_per_second"))],
    [label |-> "Milliseconds Used/Second",
     field |-> Single("milliseconds_used_per_second")],
    [label |-> "Instances",
     field |-> Multi((<<"T", "o", "t", "a", "l">> :> "total_instance_count") @@
              (<<"A", "c", "t", "i", "v", "e">> :> "active_instance_count") @@
              (<<"B", "i", "l", "l", "e", "d">> :> "billed_instance_count"))],
    [label |-> "Memory Usage (MB)",
     field |-> Single("memory_usage_mb")],
    [label |-> "Memcache Operations/Second",
     field |-> Single("memcache_ops_per_second")],
    [label |-> "Memcache Compute Units/Second",
     field |-> Single("memcache_compute_units_per_second")],
    [label |-> "Memcache Traffic (Bytes/Second)",
     field |-> Multi((<<"S", "e", "n", "t">> :> "memcache_bytes_sent_per_second") @@
              (<<"R", "e", "c", "e", "i", "v", "e", "d">>
                      :> "memcache_bytes_received_per_second") @@
              (<<"T", "o", "t", "a", "l">> :> "memcache_total_bytes_per_second"))],
    [label |-> "Memcache Total Cache Size (MB)",
     field |-> Single("memcache_size_mb")]
    >>

\* _time_windows: the duration of each entry, hours * 3600, as
\* datetime.timedelta(hours=...).total_seconds() gives it
time_windows == <<1800, 10800, 21600, 43200, 86400, 172800, 345600, 604800,
                  1209600, 2592000>>

num_charts == Len(label_to_field_map)

\* the largest token of the extended encoding
MaxToken == 4095

----------------------------------------------------------------------------
(* The arithmetic of Python's float, an IEEE-754 double: what float() reads  *)
(* and the quotient and the product of "float(x) / 4095 * value" are each    *)
(* rounded to the nearest double, ties to even.  Naturals beyond TLC's       *)
(* integers are sequences of limbs, the least significant first, with no     *)
(* leading zero limb.                                                        *)

\* the bits of a limb, and the first value a limb cannot hold
LimbBits == 15

LimbBase == 32768

\* the bits of a double's mantissa, the exponent of its lowest bit when it is
\* subnormal, and the power of two no double reaches
MantissaBits == 53

MinExponent == -1074

MaxExponent == 1024

RECURSIVE Pow2(_)
Pow2(k) == IF k = 0 THEN 1 ELSE 2 * Pow2(k - 1)

RECURSIVE BitLen(_)
BitLen(n) == IF n = 0 THEN 0 ELSE 1 + BitLen(n \div 2)

RECURSIVE BigOf(_)
BigOf(n) == IF n = 0 THEN <<>> ELSE <<n % LimbBase>> \o BigOf(n \div LimbBase)

\* a without its leading zero limbs
BigTrim(a) ==
    CHOOSE one \in
        {SubSeq(x, 1, Len(x) - Cardinality({i \in DOMAIN x : \A j \in i..Len(x) : x[j] = 0})) :
         x \in {a \o <<>>}} : TRUE

\* the carry into limb i of the sums s, each below 2 * LimbBase: the limb below
\* overflows, or it passes on the carry it is given
RECURSIVE Carry(_, _)
Carry(s, i) ==
    IF i = 1 THEN 0
    ELSE IF s[i - 1] >= LimbBase THEN 1
    ELSE IF s[i - 1] < LimbBase - 1 THEN 0
    ELSE Carry(s, i - 1)

\* the limbs of the sums s
BigCarried(s) ==
    CHOOSE one \in
        {BigTrim([i \in 1..(Len(x) + 1) |->
                    ((IF i <= Len(x) THEN x[i] ELSE 0) + Carry(x, i)) % LimbBase]) :
         x \in {s \o <<>>}} : TRUE

\* a + b + c for a carry c of 0 or 1
BigAddCarry(a, b, c) ==
    CHOOSE one \in
        {BigCarried([i \in 1..(IF Len(x) > Len(y) THEN Len(x) ELSE Len(y) + 1) |->
                        (IF i <= Len(x) THEN x[i] ELSE 0)
                        + (IF i <= Len(y) THEN y[i] ELSE 0)
                        + (IF i = 1 THEN c ELSE 0)]) :
         x \in {a}, y \in {b}} : TRUE

\* a - b for a >= b: a plus the complement of b to LimbBase^Len(a), limb by
\* limb, and one; the carry out of the highest limb is dropped
BigSub(a, b) ==
    CHOOSE one \in
        {BigTrim(SubSeq(BigCarried([i \in DOMAIN x |->
                                       x[i] + (LimbBase - 1)
                                       - (IF i <= Len(y) THEN y[i] ELSE 0)
                                       + (IF i = 1 THEN 1 ELSE 0)]),
                        1, Len(x))) :
         x \in {a}, y \in {b}} : TRUE

\* a * k + c for a limb k and c below LimbBase: the low half of every product
\* meets the high half of the product of the limb below
BigMulLimb(a, k, c) ==
    CHOOSE one \in
        {BigCarried([i \in 1..(Len(x) + 1) |->
                        (IF i <= Len(x) THEN (x[i] * f) % LimbBase ELSE 0)
                        + (IF i > 1 THEN (x[i - 1] * f) \div LimbBase ELSE c)]) :
         x \in {a}, f \in {k}} : TRUE

\* a * b for limbs b that may end in zero limbs: limb by limb of b, one half of
\* b after the other
RECURSIVE BigMulLimbs(_, _)
BigMulLimbs(a, b) ==
    IF Len(b) = 0 THEN <<>>
    ELSE IF Len(b) = 1 THEN BigMulLimb(a, b[1], 0)
    ELSE BigAddCarry(BigMulLimbs(a, SubSeq(b, 1, Len(b) \div 2)),
                     [i \in 1..(Len(b) \div 2) |-> 0]
                     \o BigMulLimbs(a, SubSeq(b, Len(b) \div 2 + 1, Len(b))), 0)

BigMul(a, b) ==
    CHOOSE one \in
        {IF Len(x) < Len(y) THEN BigMulLimbs(y, x) ELSE BigMulLimbs(x, y) :
         x \in {a}, y \in {b}} : TRUE

\* 10^k, by squaring
RECURSIVE BigPow10(_)
BigPow10(k) ==
    IF k <= 4 THEN BigOf(Pow10(k))
    ELSE IF k % 2 = 1 THEN BigMulLimb(BigPow10(k - 1), 10, 0)
    ELSE CHOOSE one \in {BigMul(h, h) : h \in {BigPow10(k \div 2)}} : TRUE

\* -1, 0 or 1 as a < b, a = b or a > b: limbs of one length compare as their
\* highest limbs that differ
BigCmp(a, b) ==
    CHOOSE one \in
        {IF Len(x) # Len(y) THEN (IF Len(x) < Len(y) THEN -1 ELSE 1)
         ELSE IF x = y THEN 0
         ELSE IF \E i \in DOMAIN x :
                    x[i] < y[i] /\ \A j \in (i + 1)..Len(x) : x[j] = y[j]
         THEN -1 ELSE 1 :
         x \in {a}, y \in {b}} : TRUE

BigBitLen(a) ==
    CHOOSE one \in
        {IF x = <<>> THEN 0 ELSE LimbBits * (Len(x) - 1) + BitLen(x[Len(x)]) :
         x \in {a}} : TRUE

\* bit i of a, bit 0 the least significant
BigBit(a, i) ==
    IF i \div LimbBits + 1 > Len(a) THEN 0
    ELSE (a[i \div LimbBits + 1] \div Pow2(i % LimbBits)) % 2

\* a * 2^n
BigShl(a, n) ==
    CHOOSE one \in
        {[i \in 1..(IF x = <<>> THEN 0 ELSE n \div LimbBits) |-> 0]
         \o BigMulLimb(x, Pow2(n % LimbBits), 0) :
         x \in {a}} : TRUE

\* a \div 2^n: limbs are dropped, and the rest d is divided by r = 2^(n % LimbBits)
BigShr(a, n) ==
    CHOOSE one \in
        {BigTrim([i \in DOMAIN d |->
                    d[i] \div r
                    + (IF i < Len(d) THEN (d[i + 1] % r) * (LimbBase \div r) ELSE 0)]) :
         d \in {SubSeq(a, n \div LimbBits + 1, Len(a))}, r \in {Pow2(n % LimbBits)}} : TRUE

\* The magnitude of a double is [m |-> mantissa, e |-> exponent], meaning
\* m * 2^e: the mantissa has exactly MantissaBits bits, or fewer when the
\* double is subnormal, and then e is MinExponent.  0.0 is [m |-> <<>>,
\* e |-> 0] and inf is [m |-> <<>>, e |-> MaxExponent].

\* m * 2^e with its lowest s > 0 bits rounded away, to the nearest, ties to
\* even.  A rounded mantissa r that has outgrown MantissaBits is a power of two.
RoundBits(m, e, s) ==
    CHOOSE one \in
        {IF BigBitLen(r) > MantissaBits THEN [m |-> BigShr(r, 1), e |-> e + s + 1]
         ELSE [m |-> r, e |-> e + s] :
         r \in {BigAddCarry(BigShr(m, s), <<>>,
                            IF /\ BigBit(m, s - 1) = 1
                               /\ \/ \E i \in 0..(s - 2) : BigBit(m, i) = 1
                                  \/ BigBit(m, s) = 1
                            THEN 1 ELSE 0)}} : TRUE

\* m * 2^e for any m > 0, with the exponent t of the lowest bit a double of
\* that size keeps: 0.0 for a mantissa rounded to nothing, inf for a double
\* that reaches 2^MaxExponent
RoundAt(m, e, t) ==
    CHOOSE one \in
        {IF d.m = <<>> THEN [m |-> <<>>, e |-> 0]
         ELSE IF d.e + BigBitLen(d.m) > MaxExponent THEN [m |-> <<>>, e |-> MaxExponent]
         ELSE d :
         d \in {IF t <= e THEN [m |-> BigShl(m, e - t), e |-> t]
                ELSE RoundBits(m, e, t - e)}} : TRUE

\* m * 2^e for any m > 0, rounded to the nearest double
RoundToDouble(m, e) ==
    CHOOSE one \in
        {RoundAt(x, y, IF y + BigBitLen(x) - MantissaBits > MinExponent
                       THEN y + BigBitLen(x) - MantissaBits ELSE MinExponent) :
         x \in {m}, y \in {e}} : TRUE

\* the largest q of lo..hi with q * b <= a, lo being one
RECURSIVE QuotientIn(_, _, _, _)
QuotientIn(a, b, lo, hi) ==
    IF lo = hi THEN lo
    ELSE CHOOSE one \in
             {IF BigCmp(BigMul(y, BigOf(mid)), x) <= 0 THEN QuotientIn(x, y, mid, hi)
              ELSE QuotientIn(x, y, lo, mid - 1) :
              x \in {a}, y \in {b}, mid \in {(lo + hi + 1) \div 2}} : TRUE

\* long division by den of a remainder below den, r being LimbBase times the
\* remainder: the quotient's limbs are put before m, k counting them, up to
\* the limbs that hold four bits more than a mantissa and the bits that round
\* it; a last bit tells whether a remainder is left.  The quotient is m * 2^e.
RECURSIVE DivideLimbs(_, _, _, _)
DivideLimbs(m, r, den, k) ==
    IF k = (MantissaBits + 4) \div LimbBits + 1
    THEN [m |-> BigAddCarry(BigTrim(m), BigTrim(m), IF r # <<>> THEN 1 ELSE 0),
          e |-> 0 - k * LimbBits - 1]
    ELSE CHOOSE one \in
             {DivideLimbs(<<q>> \o m, BigShl(BigSub(x, BigMul(b, BigOf(q))), LimbBits),
                          b, k + 1) :
              x \in {r}, b \in {den}, q \in {QuotientIn(r, den, 0, LimbBase - 1)}} : TRUE

\* the double nearest to num / den for limbs num > 0 and den > 0.  With d the
\* difference of their bits, the larger of the two is below the other times
\* 2^|d|: the quotient q of the two so scaled lies between 1/4 and 1.
FloatOfBig(num, den) ==
    CHOOSE one \in
        {IF b = <<1>> THEN RoundToDouble(a, 0)
         ELSE (CHOOSE rounded \in
                  {RoundToDouble(q.m, q.e + d) :
                   q \in {DivideLimbs(<<>>,
                                      BigShl(a, IF d > 0 THEN LimbBits ELSE LimbBits - d),
                                      IF d > 0 THEN BigShl(b, d) ELSE b, 0)}} : TRUE) :
         a \in {num}, b \in {den}, d \in {BigBitLen(num) - BigBitLen(den) + 1}} : TRUE

\* the double nearest to num / den, for integers num > 0 and den > 0:
\* float(num) / den
FloatOfRat(num, den) == FloatOfBig(BigOf(num), BigOf(den))

\* a * b of two doubles that are neither 0.0 nor inf
FloatMul(a, b) ==
    CHOOSE one \in
        {RoundToDouble(BigMul(x.m, y.m), x.e + y.e) : x \in {a}, y \in {b}} : TRUE

\* -1, 0 or 1 as the double p is below, at or above num / den
FloatCmpRat(p, num, den) ==
    CHOOSE one \in
        {IF x.e >= 0 THEN BigCmp(BigShl(BigMul(x.m, den), x.e), num)
         ELSE BigCmp(BigMul(x.m, den), BigShl(num, -x.e)) :
         x \in {p}} : TRUE

\* -1, 0 or 1 as the double float(x) / 4095 * value is below, at or above what
\* it approximates, x * value / 4095, for value = num/den
ProductSide(x, num, den) ==
    FloatCmpRat(FloatMul(FloatOfRat(x, MaxToken), FloatOfRat(num, den)),
                BigMul(BigOf(x), BigOf(num)), BigMul(BigOf(MaxToken), BigOf(den)))

----------------------------------------------------------------------------
(* float(text) *)

\* the letters float() reads in either case
Lower(c) ==
    CASE c = "E" -> "e" [] c = "I" -> "i" [] c = "N" -> "n" [] c = "F" -> "f"
      [] c = "T" -> "t" [] c = "Y" -> "y" [] c = "A" -> "a" [] OTHER -> c

LowerAll(s) == [i \in DOMAIN s |-> Lower(s[i])]

\* decimal digits of any length, as limbs: up to four digits make a limb, and
\* more are the first half times a power of ten, plus the second half
RECURSIVE BigDigits(_)
BigDigits(s) ==
    IF Len(s) <= 4 THEN BigOf(DigitsValue(s))
    ELSE BigAddCarry(BigMul(BigDigits(SubSeq(s, 1, Len(s) \div 2)),
                            BigPow10(Len(s) - Len(s) \div 2)),
                     BigDigits(SubSeq(s, Len(s) \div 2 + 1, Len(s))), 0)

\* the double nearest to m * 10^x for limbs m.  With L the bits of m, m * 10^x
\* is at least 10^310 when 0.3 * (L - 1) + x > 310, and inf; it is below
\* 10^-324, under half the smallest double, when 0.4 * L + x < -324, and 0.0.
DecimalToDouble(m, x) ==
    CHOOSE one \in
        {IF a = <<>> THEN [m |-> <<>>, e |-> 0]
         ELSE IF 3 * (BigBitLen(a) - 1) + 10 * d > 3100 THEN [m |-> <<>>, e |-> MaxExponent]
         ELSE IF 4 * BigBitLen(a) + 10 * d < -3240 THEN [m |-> <<>>, e |-> 0]
         ELSE IF d >= 0 THEN RoundToDouble(BigMul(a, BigPow10(d)), 0)
         ELSE FloatOfBig(a, BigPow10(-d)) :
         a \in {m}, d \in {x}} : TRUE

\* the float nearest to the digits s times 10^x, negative when neg: the z
\* zeros that s ends with go to the exponent.  A float is its magnitude with
\* the field neg for the sign; nan is [neg |-> FALSE, m |-> <<1>>,
\* e |-> MaxExponent].
DigitsToDouble(s, x, neg) ==
    CHOOSE one \in
        {[neg |-> neg, m |-> d.m, e |-> d.e] :
         d \in {CHOOSE nearest \in
                   {DecimalToDouble(BigDigits(SubSeq(s, 1, Len(s) - z)), x + z) :
                    z \in {Cardinality({i \in DOMAIN s :
                                          \A j \in i..Len(s) : s[j] = "0"})}} : TRUE}} : TRUE

\* the exponent after "e": an optional sign and digits.  One of more than 7
\* digits after its leading zeros is taken for 10^7: no text holds the zeros
\* that would make up for it.
ParseExponent(t) ==
    LET body == IF t # <<>> /\ Head(t) \in {"-", "+"} THEN Tail(t) ELSE t
        value == IF \E i \in 1..(Len(body) - 7) : body[i] # "0" THEN Pow10(7)
                 ELSE DigitsValue(SubSeq(body, IF Len(body) > 7 THEN Len(body) - 6 ELSE 1,
                                         Len(body)))
    IN  IF body # <<>> /\ \A i \in DOMAIN body : IsDigit(body[i])
        THEN Ok(IF t[1] = "-" THEN -value ELSE value)
        ELSE Raise("ValueError")

\* the digits mp[1] "." mp[2] with the exponent x, itself parsed
ParseMantissa(mp, x, neg) ==
    LET fp == IF Len(mp) = 2 THEN mp[2] ELSE <<>>
    IN  IF /\ Len(mp) \in {1, 2}
           /\ mp[1] \o fp # <<>>
           /\ \A i \in DOMAIN (mp[1] \o fp) : IsDigit((mp[1] \o fp)[i])
           /\ x.ok
        THEN Ok(DigitsToDouble(mp[1] \o fp, x.val - Len(fp), neg))
        ELSE Raise("ValueError")

\* the mantissa ep[1] and, after an "e", the exponent ep[2]
ParseDecimal(ep, neg) ==
    IF Len(ep) \notin {1, 2} THEN Raise("ValueError")
    ELSE ParseMantissa(Split(ep[1], "."),
                       ParseExponent(IF Len(ep) = 2 THEN ep[2] ELSE <<"0">>), neg)

\* "inf", "infinity", "nan" or a decimal, in lower case
ParseUnsigned(body, neg) ==
    IF body \in {<<"i", "n", "f">>, <<"i", "n", "f", "i", "n", "i", "t", "y">>}
    THEN Ok([neg |-> neg, m |-> <<>>, e |-> MaxExponent])
    ELSE IF body = <<"n", "a", "n">> THEN Ok([neg |-> FALSE, m |-> <<1>>, e |-> MaxExponent])
    ELSE ParseDecimal(Split(body, "e"), neg)

\* an optional sign, then the number
ParseSigned(t) ==
    ParseUnsigned(IF t # <<>> /\ t[1] \in {"+", "-"} THEN Tail(t) ELSE t,
                  t # <<>> /\ t[1] = "-")

\* float(label): surrounding whitespace is skipped; then an optional sign and
\* either "inf", "infinity" or "nan" in any case, or decimal digits with at most
\* one "." and an optional exponent "e", sign, digits.  Any other text is a
\* ValueError.  The decimal is rounded to the nearest double.
ParseFloat(s) ==
    CHOOSE one \in {ParseSigned(t) : t \in {LowerAll(Strip(s)) \o <<>>}} : TRUE

----------------------------------------------------------------------------
(* round_to_n_significant_digits and the two decodings of unpack_chart_data *)

\* inf, -inf and nan among the 4-digit floats <<m, e>>
FloatInf == <<1, 999>>

FloatNegInf == <<-1, 999>>

FloatNaN == <<0, 999>>

\* a/b in n decimal digits, a/b lying between 10^(n-1) and 10^n: the digits q,
\* the exponent e, and half = -1, 0 or 1 as a/b is below, at or above the
\* middle of q and q + 1
ScaledDigits(a, b, e, q) ==
    CHOOSE one \in
        {[q |-> d, e |-> e,
          half |-> BigCmp(BigAddCarry(a, a, 0), BigMul(b, BigOf(2 * d + 1)))] :
         d \in {q}} : TRUE

\* a/b > 0 times 10^e in n decimal digits: a/b is brought between 10^(n-1) and
\* 10^n by powers of ten, which e counts
RECURSIVE DecimalDigits(_, _, _, _)
DecimalDigits(a, b, n, e) ==
    CHOOSE one \in
        {IF BigCmp(x, BigMul(y, BigOf(Pow10(n)))) >= 0
         THEN DecimalDigits(x, BigMulLimb(y, 10, 0), n, e + 1)
         ELSE IF BigCmp(x, BigMul(y, BigOf(Pow10(n - 1)))) < 0
         THEN DecimalDigits(BigMulLimb(x, 10, 0), y, n, e - 1)
         ELSE ScaledDigits(x, y, e, QuotientIn(x, y, Pow10(n - 1), Pow10(n) - 1)) :
         x \in {a}, y \in {b}} : TRUE

\* a/b > 0 in n decimal digits, from the exponent e: a/b is first taken to
\* a/b / 10^e
DecimalDigitsFrom(a, b, n, e) ==
    DecimalDigits(IF e < 0 THEN BigMul(a, BigPow10(-e)) ELSE a,
                  IF e > 0 THEN BigMul(b, BigPow10(e)) ELSE b, n, e)

\* the largest integer TLC computes with
MaxInt == 2147483647

\* the decimal exponent e with 10^(n-1) <= num/den / 10^e < 10^n, for num > 0
RECURSIVE ExponentOf(_, _, _, _)
ExponentOf(num, den, n, e) ==
    IF e >= 0 /\ num >= den * Pow10(n) * Pow10(e) THEN ExponentOf(num, den, n, e + 1)
    ELSE IF e <= 0 /\ num * Pow10(-e) < den * Pow10(n - 1) THEN ExponentOf(num, den, n, e - 1)
    ELSE e

\* DecimalDigits of integers num and den with the exponent e, computed without
\* limbs: every product stays within MaxInt when 10 * num and 10^n * den do
DigitsAtExponent(num, den, e) ==
    LET a == IF e >= 0 THEN num ELSE num * Pow10(-e)
        b == IF e >= 0 THEN den * Pow10(e) ELSE den
    IN  [q |-> a \div b, e |-> e,
         half |-> IF 2 * (a % b) < b THEN -1 ELSE IF 2 * (a % b) = b THEN 0 ELSE 1]

\* float('%.*e' % (n - 1, x)) for a double x > 0 whose digits are d: the
\* nearest decimal r of n digits, <<m, e>> for m * 10^e.  At the middle the
\* side of the double decides: side = 1 when the double lies above the value
\* the digits were taken of, -1 when below, and 0 when it is that value, which
\* goes to the even digit.  float() of the text is inf when the decimal rounds
\* to no double, which only one of more than 300 digits can.
FormatRound(d, n, side) ==
    CHOOSE one \in
        {LET up == IF x.half # 0 THEN x.half > 0
                   ELSE IF s # 0 THEN s > 0 ELSE x.q % 2 = 1
             m == IF up THEN x.q + 1 ELSE x.q
             r == IF m = Pow10(n) THEN <<Pow10(n - 1), x.e + 1>> ELSE <<m, x.e>>
         IN  IF r[2] > 300 /\ DecimalToDouble(BigOf(r[1]), r[2]).e = MaxExponent
             THEN FloatInf ELSE r :
         x \in {d}, s \in {side}} : TRUE

\* the float r with the sign of sign
Signed(sign, r) == CHOOSE one \in {IF sign < 0 THEN <<-x[1], x[2]>> ELSE x : x \in {r}} : TRUE

\* float('%.*e' % (n - 1, x)) for the magnitude x of a double that is not inf:
\* the digits are those of the double itself, looked for from the exponent
\* that the bits of x times log 2 = 0.30103 tell
RoundDouble(x, n) ==
    CHOOSE one \in
        {IF d.m = <<>> THEN <<0, 0>>
         ELSE FormatRound(
                  DecimalDigitsFrom(IF d.e >= 0 THEN BigShl(d.m, d.e) ELSE d.m,
                                    IF d.e >= 0 THEN <<1>> ELSE BigShl(<<1>>, -d.e), n,
                                    ((BigBitLen(d.m) + d.e) * 30103) \div 100000 - n),
                  n, 0) :
         d \in {x}} : TRUE

\* round_to_n_significant_digits(x, n) for a float x: -0.0 is <<0, 0>>
round_to_n_significant_digits(x, n) ==
    IF n < 1 THEN Raise("ValueError")
    ELSE CHOOSE one \in
             {IF d.e = MaxExponent
              THEN Ok(IF d.m # <<>> THEN FloatNaN
                      ELSE IF d.neg THEN FloatNegInf ELSE FloatInf)
              ELSE Ok(Signed(IF d.neg THEN -1 ELSE 1, RoundDouble(d, n))) :
              d \in {x}} : TRUE

\* mutant of DecodeTime: x / 4095 without float() is Python 2's integer quotient
DecodeTime_IntegerQuotient(x, time_delta_seconds) ==
    (x \div MaxToken) * time_delta_seconds

\* int(float(x) / 4095 * time_delta_seconds): int() truncates.  When
\* x * time_delta_seconds / 4095 is no integer it is at least 1/4095 away from
\* one, further than the two roundings carry, and int() gives its floor; x = 0
\* gives 0.0 and x = 4095 the quotient 1.0.  Otherwise the double is the
\* integer or the double next to it, and a double below it truncates to one less.
DecodeTime(x, time_delta_seconds) ==
    LET exact == x * (time_delta_seconds \div MaxToken)
                 + (x * (time_delta_seconds % MaxToken)) \div MaxToken
    IN  IF x \in {0, MaxToken} \/ (x * (time_delta_seconds % MaxToken)) % MaxToken # 0
        THEN exact
        ELSE IF ProductSide(x, time_delta_seconds, 1) < 0 THEN exact - 1
        ELSE exact

\* the digits of y * num / (4095 * den) rounded as the double
\* float(y) / 4095 * value_max is: the double is that value or a double next
\* to it, which rounds to 4 digits as the value does unless the value lies at
\* the middle of two decimals
RoundProduct(d, y, num, den) ==
    FormatRound(d, 4, IF d.half = 0 THEN ProductSide(y, num, den) ELSE 0)

\* the double x as the fraction <<num, den>> in lowest terms when num and den
\* are small enough for DigitsAtExponent (10 * 4095 * num and 10^4 * 4095 * den
\* within MaxInt), and <<>> otherwise: the two low limbs of the mantissa are
\* then 0 and the two high ones hold t, x being t / 2^s
ShortFraction(x) ==
    LET t == x.m[3] + LimbBase * x.m[4]
        s == 0 - x.e - 2 * LimbBits
        js == {j \in 0..5 : /\ s - j \in 0..22
                            /\ t % Pow2(s - j) = 0
                            /\ t \div Pow2(s - j) <= (MaxInt \div 10) \div MaxToken}
        least == CHOOSE j \in js : \A k \in js : j <= k
    IN  IF Len(x.m) = 4 /\ x.m[1] = 0 /\ x.m[2] = 0 /\ js # {}
        THEN <<t \div Pow2(s - least), Pow2(least)>>
        ELSE <<>>

\* round_to_n_significant_digits(float(y) / 4095 * value_max, 4) for the float
\* value_max.  0.0 * inf is nan; -0.0 is <<0, 0>>.  When value_max is the short
\* fraction f the digits are those of y * f / 4095; otherwise they are those of
\* the double that the quotient and the product round to.
DecodeValue(y, value_max) ==
    CHOOSE one \in
        {IF v.e = MaxExponent
         THEN (IF v.m # <<>> \/ y = 0 THEN FloatNaN
               ELSE IF v.neg THEN FloatNegInf ELSE FloatInf)
         ELSE IF y = 0 \/ v.m = <<>> THEN <<0, 0>>
         ELSE Signed(IF v.neg THEN -1 ELSE 1,
                     IF f # <<>>
                     THEN RoundProduct(DigitsAtExponent(y * f[1], MaxToken * f[2],
                                           ExponentOf(y * f[1], MaxToken * f[2], 4, 0)),
                                       y, f[1], f[2])
                     ELSE RoundDouble(FloatMul(FloatOfRat(y, MaxToken), v), 4)) :
         v \in {value_max},
         f \in {IF value_max.e = MaxExponent \/ value_max.m = <<>> THEN <<>>
                ELSE ShortFraction(value_max)}} : TRUE

----------------------------------------------------------------------------
(* lookup_field_name *)

ChartLabels == {label_to_field_map[i].label : i \in DOMAIN label_to_field_map}

FieldOf(chart_label) ==
    label_to_field_map[CHOOSE i \in DOMAIN label_to_field_map :
                          label_to_field_map[i].label = chart_label].field

lookup_field_name(chart_label, series_label) ==
    IF chart_label \notin ChartLabels THEN Raise("KeyError")
    ELSE LET field_name == FieldOf(chart_label)
         IN  IF field_name.single THEN Ok(field_name.name)
             ELSE IF series_label \in DOMAIN field_name.map
                  THEN Ok(field_name.map[series_label])
                  ELSE Raise("KeyError")

----------------------------------------------------------------------------
(* get_axis_labels *)

EndsWith(s, c) == s # <<>> /\ s[Len(s)] = c

StartsWith(s, prefix) ==
    Len(s) >= Len(prefix) /\ SubSeq(s, 1, Len(prefix)) = prefix

\* the loop over chart['chxl'].split('|')
RECURSIVE AxisLabelLoop(_, _, _)
AxisLabelLoop(labels, axis_index, axis_labels) ==
    IF labels = <<>> THEN Ok(axis_labels)
    ELSE LET label == Head(labels)
         IN  IF EndsWith(label, ":")
             THEN IF ~IsDigit(label[1]) THEN Raise("ValueError")
                  ELSE IF ~(DigitValue(label[1]) < Len(axis_labels))
                       THEN Raise("AssertionError")
                       ELSE AxisLabelLoop(Tail(labels), DigitValue(label[1]), axis_labels)
             ELSE AxisLabelLoop(Tail(labels), axis_index,
                                [axis_labels EXCEPT ![axis_index + 1] = Append(@, label)])

\* dict((axis, axis_labels[i]) for i, axis in enumerate(axes)): the last wins
get_axis_labels(chart) ==
    LET axes == Split(chart.chxt, ",")
        loop == AxisLabelLoop(Split(chart.chxl, "|"), 0, [i \in DOMAIN axes |-> <<>>])
    IN  IF ~loop.ok THEN loop
        ELSE Ok([axis \in Range(axes) |->
                    loop.val[CHOOSE i \in DOMAIN axes :
                                /\ axes[i] = axis
                                /\ \A j \in DOMAIN axes : axes[j] = axis => j <= i]])

----------------------------------------------------------------------------
(* unpack_chart_data *)

Min(a, b) == IF a < b THEN a ELSE b

\* zip(time_series, value_series) after the two decodings
DecodeSeries(time_series, value_series, value_max, time_delta_seconds) ==
    [k \in 1..Min(Len(time_series), Len(value_series)) |->
        <<DecodeTime(time_series[k], time_delta_seconds),
          DecodeValue(value_series[k], value_max)>>]

\* chart: the parameters GChart.fromurl() parsed from the URL, with data what
\* chart.getdata() returns for the extended encoding.  The generator runs every
\* check before its first yield; its result is the list of all it yields.
unpack_chart_data(chart, time_delta_seconds) ==
    IF ~StartsWith(chart.chd, <<"e", ":">>) THEN Raise("AssertionError")
    ELSE LET axis_labels == get_axis_labels(chart)
         IN
         IF ~axis_labels.ok THEN axis_labels
         ELSE IF <<"y">> \notin DOMAIN axis_labels.val THEN Raise("KeyError")
         ELSE IF axis_labels.val[<<"y">>] = <<>> THEN Raise("IndexError")
         ELSE LET ylabels == axis_labels.val[<<"y">>]
                  value_max == ParseFloat(ylabels[Len(ylabels)])
                  series == chart.data
                  series_labels == IF chart.has_chdl THEN Split(chart.chdl, "|")
                                   ELSE <<NoLabel>>
              IN
              IF ~value_max.ok THEN value_max
              ELSE IF chart.chxt # <<"x", ",", "y">> THEN Raise("AssertionError")
              ELSE IF 2 * Len(series_labels) # Len(series) THEN Raise("AssertionError")
              ELSE Ok([i \in DOMAIN series_labels |->
                        <<series_labels[i],
                          DecodeSeries(series[2 * i - 1], series[2 * i],
                                       value_max.val, time_delta_seconds)>>])

----------------------------------------------------------------------------
(* aggregate_series_by_time *)

\* sorted(x_values)
RECURSIVE Sorted(_)
Sorted(S) ==
    IF S = {} THEN <<>>
    ELSE LET m == CHOOSE x \in S : \A y \in S : x <= y
         IN  <<m>> \o Sorted(S \ {m})

\* mutant of XValues: the x values common to all series, not their union
XValues_Intersection(named_series) ==
    {x \in UNION {{named_series[name][k][1] : k \in DOMAIN named_series[name]} :
                     name \in DOMAIN named_series} :
        \A name \in DOMAIN named_series :
            \E k \in DOMAIN named_series[name] : named_series[name][k][1] = x}

XValues(named_series) ==
    UNION {{named_series[name][k][1] : k \in DOMAIN named_series[name]} :
              name \in DOMAIN named_series}

\* filter(lambda (x, y): x == x_value, xy_pairs)
MatchedPairs(xy_pairs, x_value) ==
    SelectSeq(xy_pairs, LAMBDA p : p[1] = x_value)

\* mutant of RecordAt: a series without a point at x_value reports 0
RecordAt_ZeroFill(named_series, x_value) ==
    [name \in DOMAIN named_series |->
        IF SelectSeq(named_series[name], LAMBDA p : p[1] = x_value) # <<>>
        THEN SelectSeq(named_series[name], LAMBDA p : p[1] = x_value)[1][2]
        ELSE 0]

\* the record built for x_value, once the assertion has passed for every series
RecordAt(named_series, x_value) ==
    LET names == {name \in DOMAIN named_series :
                     MatchedPairs(named_series[name], x_value) # <<>>}
    IN  [name \in names |-> MatchedPairs(named_series[name], x_value)[1][2]]

\* mutant of aggregate_series_by_time: no assertion, the first match is taken
aggregate_series_by_time_FirstMatch(named_series) ==
    Ok([i \in DOMAIN Sorted(XValues(named_series)) |->
          <<Sorted(XValues(named_series))[i],
            RecordAt(named_series, Sorted(XValues(named_series))[i])>>])

\* The generator raises at the first x_value for which a series matches twice; the
\* pairs it yielded before are dropped with it by the caller's loop.  Its result
\* is the list of the (x, record) pairs it yields.
aggregate_series_by_time(named_series) ==
    LET xs == Sorted(XValues(named_series))
    IN  IF \E i \in DOMAIN xs : \E name \in DOMAIN named_series :
               Len(MatchedPairs(named_series[name], xs[i])) \notin {0, 1}
        THEN Raise("AssertionError")
        ELSE Ok([i \in DOMAIN xs |-> <<xs[i], RecordAt(named_series, xs[i])>>])

----------------------------------------------------------------------------
(* datetime and the text of the watermark file *)

\* datetime.datetime.utcfromtimestamp(t) for a whole number of seconds t, as the
\* pair <<days, seconds>> since the epoch that datetime arithmetic works on
utcfromtimestamp(t) == <<t \div 86400, t % 86400>>

\* int((dt - epoch).total_seconds())
total_seconds(dt) == dt[1] * 86400 + dt[2]

\* dt1 < dt2
DatetimeLess(dt1, dt2) == dt1[1] < dt2[1] \/ (dt1[1] = dt2[1] /\ dt1[2] < dt2[2])

RECURSIVE NatToStr(_)
NatToStr(n) ==
    IF n < 10 THEN <<Digits[n + 1]>>
    ELSE NatToStr(n \div 10) \o <<Digits[(n % 10) + 1]>>

\* what "print >>f, n" writes for an int n
PrintInt(n) == (IF n < 0 THEN <<"-">> \o NatToStr(-n) ELSE NatToStr(n)) \o <<"\n">>

\* _time_t_of_latest_record, once open() has succeeded; file is <<>> when
\* os.path.exists() is false
time_t_of_latest_record_of(file) ==
    IF file = None THEN Ok(None)
    ELSE LET n == ParseInt(Strip(file[1]))
         IN  IF n.ok THEN Ok(Some(n.val)) ELSE n

\* max(records, key=lambda r: r['utc_datetime']): the first of the largest
LatestRecord(recs) ==
    recs[CHOOSE i \in DOMAIN recs :
            /\ \A j \in DOMAIN recs :
                  ~DatetimeLess(recs[i]["utc_datetime"], recs[j]["utc_datetime"])
            /\ \A j \in 1..(i - 1) :
                  DatetimeLess(recs[j]["utc_datetime"], recs[i]["utc_datetime"])]

\* _write_time_t_of_latest_record: the new content of the file
write_time_t_of_latest_record(recs) ==
    Some(PrintInt(total_seconds(LatestRecord(recs)["utc_datetime"])))

----------------------------------------------------------------------------
(* The inputs of a fetch cycle *)

Chxt_x_y == <<"x", ",", "y">>

Chxl_two_axes == <<"0", ":", "|", "-", "1", "h", "|", "n", "o", "w", "|", "1", ":", "|", "1", "5", "0", "|", "3", "0", "0", ".", "0", "0">>

Chdl_Sent_Received == <<"S", "e", "n", "t">> \o <<"|">> \o <<"R", "e", "c", "e", "i", "v", "e", "d">>

Chdl_Bogus == <<"B", "o", "g", "u", "s">>

Chd_extended == <<"e", ":">>

Chd_simple == <<"s", ":">>

ChartUrl(chd, chdl, data) ==
    [chd |-> chd, chxt |-> Chxt_x_y, chxl |-> Chxl_two_axes,
     has_chdl |-> chdl # None, chdl |-> IF chdl = None THEN <<>> ELSE chdl[1],
     data |-> data]

\* one unlabelled series of three points across the window
UrlLatency == ChartUrl(Chd_extended, None, << <<0, 2048, 4095>>, <<0, 2047, 4095>> >>)

\* one unlabelled series with its only point at the start of the window
UrlStart == ChartUrl(Chd_extended, None, << <<0>>, <<4095>> >>)

\* one unlabelled series with its only point at the end of the window
UrlEnd == ChartUrl(Chd_extended, None, << <<4095>>, <<1000>> >>)

\* one unlabelled series with the same x token twice
UrlDup == ChartUrl(Chd_extended, None, << <<7, 7>>, <<1, 2>> >>)

\* two labelled series
UrlTraffic ==
    ChartUrl(Chd_extended, Some(Chdl_Sent_Received),
             << <<0, 4095>>, <<10, 20>>, <<0>>, <<30>> >>)

\* a labelled series the table does not know
UrlBogus == ChartUrl(Chd_extended, Some(Chdl_Bogus), << <<0>>, <<1>> >>)

Modules == {"m1", "m2"}

Descriptor(chart_num, module, time_window, url) ==
    [chart_num |-> chart_num, module |-> module, time_window |-> time_window,
     chart_url_data |-> url]

\* the chart descriptors a batch is made of: "Latency" charts of two modules
\* over the first two windows with a point at the start or the end of the
\* window, a chart with three points, a chart with two labelled series, one
\* with a series label the table does not have and one whose series repeats an
\* x token
Descriptors ==
    {Descriptor(2, "m1", 0, UrlEnd),
     Descriptor(2, "m2", 0, UrlStart),
     Descriptor(2, "m1", 1, UrlStart),
     Descriptor(2, "m1", 1, UrlEnd),
     Descriptor(2, "m1", 0, UrlLatency),
     Descriptor(5, "m1", 0, UrlTraffic),
     Descriptor(5, "m1", 0, UrlBogus),
     Descriptor(2, "m1", 0, UrlDup)}

\* the longest batch
MaxCharts == 2

Batches == UNION {[1..n -> Descriptors] : n \in 0..MaxCharts}

\* the download times: the end of the '3 hrs' window that starts at the epoch,
\* and one second later
DownloadTimes == {10800, 10801}

----------------------------------------------------------------------------
(* parse_and_commit_record *)

EmptyDict == <<>>

\* d[key] = value
DictSet(d, key, value) == (key :> value) @@ d

\* the loop over chart_data: named_series_by_module[module][field_name] = xy_pairs
RECURSIVE NameSeries(_, _, _, _)
NameSeries(chart_data, chart_label, module, named) ==
    IF chart_data = <<>> THEN Ok(named)
    ELSE LET series_label == Head(chart_data)[1]
             xy_pairs == Head(chart_data)[2]
             field_name == lookup_field_name(chart_label, series_label)
             of_module == IF module \in DOMAIN named THEN named[module] ELSE EmptyDict
         IN  IF ~field_name.ok THEN field_name
             ELSE NameSeries(Tail(chart_data), chart_label, module,
                             DictSet(named, module,
                                     DictSet(of_module, field_name.val, xy_pairs)))

\* the loop over input_json; acc is [named, time_delta]
RECURSIVE ExtractNamedSeries(_, _)
ExtractNamedSeries(charts, acc) ==
    IF charts = <<>> THEN Ok(acc)
    ELSE LET chart_json == Head(charts)
             item == PyIndex(label_to_field_map, chart_json.chart_num)
             window == PyIndex(time_windows, chart_json.time_window)
         IN
         IF ~item.ok THEN item
         ELSE IF ~window.ok THEN window
         ELSE CHOOSE one \in
                  {IF ~chart_data.ok THEN chart_data
                   ELSE LET named == NameSeries(chart_data.val, item.val.label,
                                                chart_json.module, acc.named)
                        IN  IF ~named.ok THEN named
                            ELSE ExtractNamedSeries(Tail(charts),
                                     [named |-> named.val, time_delta |-> window.val]) :
                   chart_data \in {unpack_chart_data(chart_json.chart_url_data,
                                                     window.val)}} : TRUE

\* mutant of SameTimeWindow: the assertion is not evaluated
SameTimeWindow_NotAsserted(charts) == TRUE

\* the assertion that all elements of input_json have the same time window
SameTimeWindow(charts) ==
    \A i \in DOMAIN charts : charts[i].time_window = charts[1].time_window

\* mutant of IsNewRecord: a record within a few seconds of the watermark is
\* taken for one already sent
IsNewRecord_DropsNearWatermark(start_time_t, record_time_t) ==
    \/ start_time_t = None
    \/ start_time_t[1] = 0
    \/ record_time_t > start_time_t[1] + 3

\* "if not start_time_t or record_time_t > start_time_t"
IsNewRecord(start_time_t, record_time_t) ==
    \/ start_time_t = None
    \/ start_time_t[1] = 0
    \/ record_time_t > start_time_t[1]

\* record['utc_datetime'] = datetime.datetime.utcfromtimestamp(record_time_t)
Stamped(record, record_time_t) ==
    DictSet(record, "utc_datetime", utcfromtimestamp(record_time_t))

\* mutant of NewRecords: a record is stamped with its elapsed seconds alone
NewRecords_ElapsedOnly(pairs, start_time_t, chart_start_time_t) ==
    LET kept == SelectSeq(pairs,
                    LAMBDA p : IsNewRecord(start_time_t, chart_start_time_t + p[1]))
    IN  [k \in DOMAIN kept |-> Stamped(kept[k][2], kept[k][1])]

\* the records of one module: the aggregated pairs that pass the filter
NewRecords(pairs, start_time_t, chart_start_time_t) ==
    LET kept == SelectSeq(pairs,
                    LAMBDA p : IsNewRecord(start_time_t, chart_start_time_t + p[1]))
    IN  [k \in DOMAIN kept |-> Stamped(kept[k][2], chart_start_time_t + kept[k][1])]

\* the orders in which a dict with these keys can be iterated
Orders(keys) ==
    {o \in [1..Cardinality(keys) -> keys] : \A k \in keys : \E i \in DOMAIN o : o[i] = k}

\* reduce(lambda x, y: x + y, records_by_module.values(), [])
RECURSIVE AllRecords(_, _)
AllRecords(by_module, order) ==
    IF order = <<>> THEN <<>>
    ELSE by_module[Head(order)] \o AllRecords(by_module, Tail(order))

----------------------------------------------------------------------------
(* One run of main(): the fetch cycle *)

InitCycle ==
    /\ db = None
    /\ pc = "idle"
    /\ input_json = <<>>
    /\ utc_timestamp = 0
    /\ dry_run = FALSE
    /\ time_t_of_latest_record = None
    /\ named_series_by_module = EmptyDict
    /\ time_delta = None
    /\ records_by_module = EmptyDict
    /\ records = <<>>
    /\ todo = <<>>
    /\ sink = <<>>
    /\ result = "none"
    /\ error = ""
    /\ db0 = None
    /\ n_reads = 0
    /\ n_writes = 0
    /\ rerun = FALSE

InitAggIdle == agg_in = EmptyDict /\ agg_out = None

InitDecIdle == dec_token = 0 /\ dec_window = 0 /\ dec_out = None

InitLkIdle == lk_in = <<0, NoLabel>> /\ lk_out = None

InitAxIdle == ax_in = None /\ ax_out = None

InitUnIdle == un_in = None /\ un_out = None

\* an exception leaves main(): the run is over and nothing else is touched
Fail(e) ==
    /\ pc' = "done"
    /\ result' = "failed"
    /\ error' = e

\* main() is called with a batch, a download time and the dry-run flag
StartCycle ==
    /\ pc = "idle"
    /\ \E batch \in Batches, t \in DownloadTimes, d \in BOOLEAN :
          /\ input_json' = batch
          /\ utc_timestamp' = t
          /\ dry_run' = d
    /\ pc' = "load"
    /\ result' = "running"
    /\ error' = ""
    /\ db0' = db
    /\ n_reads' = 0
    /\ n_writes' = 0
    /\ time_t_of_latest_record' = None
    /\ named_series_by_module' = EmptyDict
    /\ time_delta' = None
    /\ records_by_module' = EmptyDict
    /\ records' = <<>>
    /\ todo' = <<>>
    /\ sink' = <<>>
    /\ UNCHANGED db

\* main: time_t_of_latest_record = _time_t_of_latest_record().  When the file
\* exists, open() or read() can raise (permissions, disk); and os.path.exists()
\* is False, with no exception, when the file is there but stat() fails, so
\* that the function returns None as it does for a missing file.
LoadWatermark ==
    /\ pc = "load"
    /\ \/ /\ db # None
          /\ Fail("IOError on read")
          /\ UNCHANGED <<time_t_of_latest_record, n_reads>>
       \/ /\ db # None
          /\ n_reads' = n_reads + 1
          /\ time_t_of_latest_record' = None
          /\ pc' = "parse"
          /\ UNCHANGED <<result, error>>
       \/ LET loaded == time_t_of_latest_record_of(db)
          IN  /\ n_reads' = n_reads + 1
              /\ IF loaded.ok
                 THEN /\ time_t_of_latest_record' = loaded.val
                      /\ pc' = "parse"
                      /\ UNCHANGED <<result, error>>
                 ELSE /\ Fail(loaded.err)
                      /\ UNCHANGED time_t_of_latest_record
    /\ UNCHANGED <<db, input_json, utc_timestamp, dry_run, named_series_by_module,
                   time_delta, records_by_module, records, todo, sink, db0, n_writes>>

\* parse_and_commit_record up to the assertion on the time windows
ParseCharts ==
    /\ pc = "parse"
    /\ IF input_json = <<>>
       THEN \* "if not input_json: return": main's records is None
            /\ pc' = "commit"
            /\ UNCHANGED <<named_series_by_module, time_delta, result, error>>
       ELSE \E parsed \in {ExtractNamedSeries(input_json,
                                 [named |-> EmptyDict, time_delta |-> 0])} :
                IF ~parsed.ok
                THEN /\ Fail(parsed.err)
                     /\ UNCHANGED <<named_series_by_module, time_delta>>
                ELSE IF ~SameTimeWindow(input_json)
                THEN /\ Fail("AssertionError")
                     /\ UNCHANGED <<named_series_by_module, time_delta>>
                ELSE /\ named_series_by_module' = parsed.val.named
                     /\ time_delta' = Some(parsed.val.time_delta)
                     /\ pc' = "aggregate"
                     /\ UNCHANGED <<result, error>>
    /\ UNCHANGED <<db, input_json, utc_timestamp, dry_run, time_t_of_latest_record,
                   records_by_module, records, todo, sink, db0, n_reads, n_writes>>

\* parse_and_commit_record from chart_start_time_t to the dry-run test: the
\* records of every module are built and filtered, then gathered into records.
\* Every window lasts a whole number of seconds, so the float record_time_t is
\* a whole number and is kept as an integer.
AggregateAndFilter ==
    /\ pc = "aggregate"
    /\ LET chart_start_time_t == utc_timestamp - time_delta[1]
           modules == DOMAIN named_series_by_module
           aggregated == [m \in modules |->
                             aggregate_series_by_time(named_series_by_module[m])]
           by_module == [m \in modules |->
                            NewRecords(aggregated[m].val, time_t_of_latest_record,
                                       chart_start_time_t)]
       IN  IF \E m \in modules : ~aggregated[m].ok
           THEN /\ Fail("AssertionError")
                /\ UNCHANGED <<records_by_module, records, todo>>
           ELSE /\ records_by_module' = by_module
                /\ \E order \in Orders(modules) :
                      IF dry_run
                      THEN /\ records' = <<>>
                           /\ todo' = <<>>
                           /\ pc' = "commit"
                      ELSE /\ records' = AllRecords(by_module, order)
                           /\ todo' = order
                           /\ pc' = IF order = <<>> THEN "commit" ELSE "deliver"
                /\ UNCHANGED <<result, error>>
    /\ UNCHANGED <<db, input_json, utc_timestamp, dry_run, time_t_of_latest_record,
                   named_series_by_module, time_delta, sink, db0, n_reads, n_writes>>

\* one turn of "for (module, records) in records_by_module.iteritems()": the loop
\* assigns parse_and_commit_record's variable records, then sends
Deliver ==
    /\ pc = "deliver"
    /\ LET module == Head(todo)
       IN  /\ records' = records_by_module[module]
           /\ \/ /\ sink' = Append(sink, <<module, records_by_module[module]>>)
                 /\ todo' = Tail(todo)
                 /\ pc' = IF Tail(todo) = <<>> THEN "commit" ELSE "deliver"
                 /\ UNCHANGED <<result, error>>
              \/ /\ Fail("DeliveryError")
                 /\ UNCHANGED <<sink, todo>>
    /\ UNCHANGED <<db, input_json, utc_timestamp, dry_run, time_t_of_latest_record,
                   named_series_by_module, time_delta, records_by_module, db0,
                   n_reads, n_writes>>

\* main: "if records: _write_time_t_of_latest_record(records)".  open(..., 'w')
\* can raise (permissions), and then the file is as it was; it truncates or
\* creates the file when it succeeds.  The text is buffered and written when
\* the file is closed, and that write can raise (disk full, file size limit)
\* after any number of its characters but the last: the file is left empty
\* or holding a beginning of the text.
Commit ==
    /\ pc = "commit"
    /\ IF records # <<>>
       THEN \/ /\ db' = write_time_t_of_latest_record(records)
               /\ n_writes' = n_writes + 1
               /\ pc' = "done"
               /\ result' = "ok"
               /\ UNCHANGED error
            \/ /\ Fail("IOError on write")
               /\ UNCHANGED <<db, n_writes>>
            \/ /\ Fail("IOError on write")
               /\ \E written \in 0..(Len(write_time_t_of_latest_record(records)[1]) - 1) :
                     db' = Some(SubSeq(write_time_t_of_latest_record(records)[1],
                                       1, written))
               /\ UNCHANGED n_writes
       ELSE /\ pc' = "done"
            /\ result' = "ok"
            /\ UNCHANGED <<db, n_writes, error>>
    /\ UNCHANGED <<input_json, utc_timestamp, dry_run, time_t_of_latest_record,
                   named_series_by_module, time_delta, records_by_module, records,
                   todo, sink, db0, n_reads>>

\* the process ends: nothing of the run is left but the watermark file
Exit ==
    /\ pc = "done"
    /\ pc' = "idle"
    /\ input_json' = <<>>
    /\ utc_timestamp' = 0
    /\ dry_run' = FALSE
    /\ time_t_of_latest_record' = None
    /\ named_series_by_module' = EmptyDict
    /\ time_delta' = None
    /\ records_by_module' = EmptyDict
    /\ records' = <<>>
    /\ todo' = <<>>
    /\ sink' = <<>>
    /\ result' = "none"
    /\ error' = ""
    /\ db0' = None
    /\ n_reads' = 0
    /\ n_writes' = 0
    /\ UNCHANGED db

Init == InitCycle /\ InitAggIdle /\ InitDecIdle /\ InitLkIdle /\ InitAxIdle /\ InitUnIdle

Next ==
    \/ StartCycle /\ rerun' = FALSE /\ UNCHANGED pure_vars
    \/ LoadWatermark /\ UNCHANGED <<rerun, pure_vars>>
    \/ ParseCharts /\ UNCHANGED <<rerun, pure_vars>>
    \/ AggregateAndFilter /\ UNCHANGED <<rerun, pure_vars>>
    \/ Deliver /\ UNCHANGED <<rerun, pure_vars>>
    \/ Commit /\ UNCHANGED <<rerun, pure_vars>>
    \/ Exit /\ rerun' = FALSE /\ UNCHANGED pure_vars

Spec == Init /\ [][Next]_vars

----------------------------------------------------------------------------
(* aggregate_series_by_time on its own: specification SpecAgg *)

AggNames == {"A", "B"}

AggValues == {1, 9}

\* the largest elapsed-seconds value of a point
MaxX == 2

\* the longest series
MaxPoints == 2

AggSeries == UNION {[1..n -> (1..MaxX) \X AggValues] : n \in 0..MaxPoints}

AggInputs == UNION {[names -> AggSeries] : names \in SUBSET AggNames}

InitAgg ==
    /\ InitCycle /\ InitDecIdle /\ InitLkIdle /\ InitAxIdle /\ InitUnIdle
    /\ agg_in \in AggInputs
    /\ agg_out = None

RunAggregate ==
    /\ agg_out = None
    /\ agg_out' = Some(aggregate_series_by_time(agg_in))
    /\ UNCHANGED agg_in

NextAgg == RunAggregate /\ UNCHANGED <<cycle_vars, rerun, dec_vars, lk_vars, ax_vars, un_vars>>

SpecAgg == InitAgg /\ [][NextAgg]_vars

----------------------------------------------------------------------------
(* the x-axis decoding on its own: specification SpecDecode *)

InitDecode ==
    /\ InitCycle
    /\ InitAggIdle /\ InitLkIdle /\ InitAxIdle /\ InitUnIdle
    /\ dec_token \in 0..MaxToken
    /\ dec_window \in 0..(Len(time_windows) - 1)
    /\ dec_out = None

RunDecode ==
    /\ dec_out = None
    /\ dec_out' = Some(DecodeTime(dec_token, time_windows[dec_window + 1]))
    /\ UNCHANGED <<dec_token, dec_window>>

NextDecode == RunDecode /\ UNCHANGED <<cycle_vars, rerun, agg_vars, lk_vars, ax_vars, un_vars>>

SpecDecode == InitDecode /\ [][NextDecode]_vars

----------------------------------------------------------------------------
(* the field-name resolution on its own: specification SpecLookup *)

\* chart_label = _label_to_field_map.keys()[chart_label_index], then
\* lookup_field_name(chart_label, series_label)
resolve_field_name(chart_num, series_label) ==
    LET item == PyIndex(label_to_field_map, chart_num)
    IN  IF ~item.ok THEN item
        ELSE lookup_field_name(item.val.label, series_label)

\* the series labels the table knows, a label it does not know, and the label
\* of a chart without a legend
SeriesLabels ==
    UNION {DOMAIN label_to_field_map[i].field.map : i \in DOMAIN label_to_field_map}
        \cup {Chdl_Bogus, NoLabel}

ChartNums == (0 - num_charts - 1)..(num_charts + 1)

InitLookup ==
    /\ InitCycle
    /\ InitAggIdle /\ InitDecIdle /\ InitAxIdle /\ InitUnIdle
    /\ lk_in \in ChartNums \X SeriesLabels
    /\ lk_out = None

RunLookup ==
    /\ lk_out = None
    /\ lk_out' = Some(resolve_field_name(lk_in[1], lk_in[2]))
    /\ UNCHANGED lk_in

NextLookup == RunLookup /\ UNCHANGED <<cycle_vars, rerun, agg_vars, dec_vars, ax_vars, un_vars>>

SpecLookup == InitLookup /\ [][NextLookup]_vars

----------------------------------------------------------------------------
(* get_axis_labels on its own: specification SpecAxis *)

\* '|'.join(segments)
RECURSIVE JoinBar(_)
JoinBar(segments) ==
    IF segments = <<>> THEN <<>>
    ELSE IF Len(segments) = 1 THEN segments[1]
    ELSE segments[1] \o <<"|">> \o JoinBar(Tail(segments))

\* segments of a chxl parameter: axis markers, one of them with two digits,
\* and two plain labels
AxisMarkers == { <<"0", ":">>, <<"1", ":">>, <<"2", ":">>, <<"1", "2", ":">> }

AxisSegments == AxisMarkers \cup { <<"a">>, <<"b">> }

MaxSegments == 4

AxisLists == { <<"x">>, <<"x", ",", "y">> }

\* a chxl parameter opens with the marker of its first axis
AxisInputs ==
    { [chxt |-> chxt, chxl |-> JoinBar(segments)] :
        chxt \in AxisLists,
        segments \in { s \in UNION {[1..n -> AxisSegments] : n \in 1..MaxSegments} :
                          s[1] \in AxisMarkers } }

InitAxis ==
    /\ InitCycle
    /\ InitAggIdle /\ InitDecIdle /\ InitLkIdle /\ InitUnIdle
    /\ ax_in \in {Some(chart) : chart \in AxisInputs}
    /\ ax_out = None

RunAxis ==
    /\ ax_in # None
    /\ ax_out = None
    /\ ax_out' = Some(get_axis_labels(ax_in[1]))
    /\ UNCHANGED ax_in

NextAxis == RunAxis /\ UNCHANGED <<cycle_vars, rerun, agg_vars, dec_vars, lk_vars, un_vars>>

SpecAxis == InitAxis /\ [][NextAxis]_vars

----------------------------------------------------------------------------
(* unpack_chart_data on its own: specification SpecUnpack *)

\* for series_label, xy_pairs in unpack_chart_data(...): what the loop has been
\* given when the generator is exhausted or raises
Consume(generated) ==
    IF generated.ok THEN [yielded |-> generated.val, raised |-> ""]
    ELSE [yielded |-> <<>>, raised |-> generated.err]

\* chxl with the y axis declared as axis 2, and as axis 12
Chxl_axis_2 == <<"0", ":", "|", "n", "o", "w", "|", "2", ":", "|", "3", "0", "0">>

Chxl_axis_12 == <<"0", ":", "|", "n", "o", "w", "|", "1", "2", ":", "|", "3", "0", "0">>

UnpackCharts ==
    { [chd |-> chd, chxt |-> chxt, chxl |-> chxl,
       has_chdl |-> chdl # None, chdl |-> IF chdl = None THEN <<>> ELSE chdl[1],
       data |-> data] :
        chd \in {Chd_extended, Chd_simple},
        chxt \in {Chxt_x_y, <<"y", ",", "x">>, <<"x">>},
        chxl \in {Chxl_two_axes, Chxl_axis_2, Chxl_axis_12},
        chdl \in {None, Some(Chdl_Sent_Received), Some(Chdl_Bogus)},
        data \in { << <<0>>, <<4095>> >>,
                   << <<0>>, <<4095>>, <<7>> >>,
                   << <<0, 4095>>, <<10, 20>>, <<0>>, <<30>> >> } }

InitUnpack ==
    /\ InitCycle
    /\ InitAggIdle /\ InitDecIdle /\ InitLkIdle /\ InitAxIdle
    /\ un_in \in {Some(chart) : chart \in UnpackCharts}
    /\ un_out = None

RunUnpack ==
    /\ un_in # None
    /\ un_out = None
    /\ un_out' = Some(Consume(unpack_chart_data(un_in[1], time_windows[1])))
    /\ UNCHANGED un_in

NextUnpack == RunUnpack /\ UNCHANGED <<cycle_vars, rerun, agg_vars, dec_vars, lk_vars, ax_vars>>

SpecUnpack == InitUnpack /\ [][NextUnpack]_vars

----------------------------------------------------------------------------
(* Runs of main() one after another, a run repeated with the same          *)
(* arguments included: specification SpecRuns                              *)

\* a 'Summary' chart with two of its series, each with one point at the start
\* of the window
UrlSummary ==
    ChartUrl(Chd_extended, Some(<<"C", "l", "i", "e", "n", "t", " ", "(", "4", "x", "x", ")">> \o <<"|">> \o <<"T", "o", "t", "a", "l", " ", "R", "e", "q", "u", "e", "s", "t", "s">>),
             << <<0>>, <<1000>>, <<0>>, <<2000>> >>)

\* an 'Error Details' chart with one series, with one point at the end of the
\* window
UrlErrorDetails == ChartUrl(Chd_extended, Some(<<"C", "l", "i", "e", "n", "t", " ", "(", "4", "x", "x", ")">>), << <<4095>>, <<3000>> >>)

\* "Latency" charts of either module over either of the first two windows, and
\* the two charts of one module that share series labels
RunDescriptors ==
    {Descriptor(2, m, w, u) : m \in Modules, w \in {0, 1}, u \in {UrlStart, UrlEnd}}
    \cup {Descriptor(0, "m1", 0, UrlSummary), Descriptor(4, "m1", 0, UrlErrorDetails)}

\* a batch holds each chart of a module at most once
RunBatches ==
    { batch \in UNION {[1..n -> RunDescriptors] : n \in 0..MaxCharts} :
        \A i, j \in DOMAIN batch :
            (batch[i].module = batch[j].module
               /\ batch[i].chart_num = batch[j].chart_num) => i = j }

\* the download times: the end of the '30 mins' window and the end of the
\* '3 hrs' window that start at the epoch
RunDownloadTimes == {1800, 10800}

\* main(batch, t, d) is called
BeginRun(batch, t, d) ==
    /\ input_json' = batch
    /\ utc_timestamp' = t
    /\ dry_run' = d
    /\ pc' = "load"
    /\ result' = "running"
    /\ error' = ""
    /\ db0' = db
    /\ n_reads' = 0
    /\ n_writes' = 0
    /\ time_t_of_latest_record' = None
    /\ named_series_by_module' = EmptyDict
    /\ time_delta' = None
    /\ records_by_module' = EmptyDict
    /\ records' = <<>>
    /\ todo' = <<>>
    /\ sink' = <<>>
    /\ UNCHANGED db

StartRun ==
    /\ pc = "idle"
    /\ \E batch \in RunBatches, t \in RunDownloadTimes, d \in BOOLEAN : BeginRun(batch, t, d)
    /\ rerun' = FALSE

\* the script is run again with the arguments of the run that has just
\* completed
Rerun ==
    /\ pc = "done"
    /\ result = "ok"
    /\ BeginRun(input_json, utc_timestamp, dry_run)
    /\ rerun' = TRUE

NextRuns ==
    \/ StartRun /\ UNCHANGED pure_vars
    \/ Rerun /\ UNCHANGED pure_vars
    \/ LoadWatermark /\ UNCHANGED <<rerun, pure_vars>>
    \/ ParseCharts /\ UNCHANGED <<rerun, pure_vars>>
    \/ AggregateAndFilter /\ UNCHANGED <<rerun, pure_vars>>
    \/ Deliver /\ UNCHANGED <<rerun, pure_vars>>
    \/ Commit /\ UNCHANGED <<rerun, pure_vars>>
    \/ Exit /\ rerun' = FALSE /\ UNCHANGED pure_vars

SpecRuns == Init /\ [][NextRuns]_vars

----------------------------------------------------------------------------
(* What the claims speak of *)

\* the absolute timestamp of a record
TimeOf(record) == total_seconds(record["utc_datetime"])

\* the records handed to the sink in this cycle, of all modules
SinkRecords == UNION {Range(sink[i][2]) : i \in DOMAIN sink}

\* the file is there and holds a watermark
HoldsTime(file) == file # None /\ time_t_of_latest_record_of(file).ok

\* the watermark a file holds
StoredTime(file) == time_t_of_latest_record_of(file).val[1]

SetMax(S) == CHOOSE x \in S : \A y \in S : y <= x

\* the filtering step has run and succeeded
Filtered == DOMAIN records_by_module # {}

\* the absolute timestamps of the aggregated pairs of module m in this cycle
AggregatedTimes(m) ==
    {utc_timestamp - time_delta[1] + p[1] :
        p \in Range(aggregate_series_by_time(named_series_by_module[m]).val)}

\* a series of the set has two points with the same elapsed-seconds value
HasRepeat(named_series) ==
    \E name \in DOMAIN named_series :
        \E i, j \in DOMAIN named_series[name] :
            i # j /\ named_series[name][i][1] = named_series[name][j][1]

----------------------------------------------------------------------------
(* The claims *)

\* C1: after a successful cycle that was no dry run and sent records, the
\* stored watermark is the largest timestamp over all records sent in the
\* cycle, of all modules.
C1_WatermarkIsLatestOfAllModules ==
    (pc = "done" /\ result = "ok" /\ ~dry_run /\ SinkRecords # {}) =>
        /\ db # None
        /\ StoredTime(db) = SetMax({TimeOf(r) : r \in SinkRecords})

\* C2: in every cycle the watermark is read exactly once, before any record is
\* filtered or sent; a cycle that completes has written it exactly once if it
\* sent at least one record (of any module), and not at all otherwise.
C2_ReadOnceWriteOnce ==
    /\ pc = "load" => n_reads = 0 /\ ~Filtered /\ sink = <<>>
    /\ pc \in {"parse", "aggregate", "deliver", "commit"} => n_reads = 1
    /\ (pc = "done" /\ result = "ok") =>
          /\ n_reads = 1
          /\ n_writes = IF SinkRecords # {} THEN 1 ELSE 0

\* C3: with no watermark stored every aggregated record is kept; with a
\* watermark T >= 0 stored an aggregated record is kept if and only if its
\* timestamp is greater than T.
C3_StrictGreaterThan ==
    (Filtered /\ (time_t_of_latest_record = None \/ time_t_of_latest_record[1] >= 0)) =>
        \A m \in DOMAIN records_by_module : \A ts \in AggregatedTimes(m) :
            (\E r \in Range(records_by_module[m]) : TimeOf(r) = ts)
            <=> (time_t_of_latest_record = None \/ ts > time_t_of_latest_record[1])

\* C4: a cycle that fails leaves the watermark file as it was when the cycle
\* started; the file differs from that only once a cycle has completed.
C4_FailedCycleKeepsWatermark ==
    /\ result = "failed" => db = db0
    /\ (result \in {"running", "ok", "failed"} /\ db # db0) =>
          pc = "done" /\ result = "ok"

\* C5: a missing file is no watermark; a file that is there is read, or the
\* cycle fails; and a cycle in which reading or writing the file fails has
\* failed and has sent nothing to the sink.
C5_Original ==
    /\ (db0 = None /\ pc \in {"parse", "aggregate", "deliver", "commit"}) =>
          time_t_of_latest_record = None
    /\ (db0 # None /\ pc \in {"parse", "aggregate", "deliver", "commit"}) =>
          time_t_of_latest_record # None
    /\ error \in {"IOError on read", "IOError on write", "ValueError"} =>
          result = "failed" /\ sink = <<>>

\* C6: when no series repeats an elapsed-seconds value, the record built for x
\* has field f with value v if and only if series f has the point (x, v).
C6_RecordHoldsExactlyThePoints ==
    (agg_out # None /\ ~HasRepeat(agg_in)) =>
        /\ agg_out[1].ok
        /\ \A i \in DOMAIN agg_out[1].val :
              LET x == agg_out[1].val[i][1]
                  record == agg_out[1].val[i][2]
              IN  /\ DOMAIN record \subseteq DOMAIN agg_in
                  /\ \A f \in DOMAIN agg_in : \A v \in AggValues \cup {0} :
                        (f \in DOMAIN record /\ record[f] = v)
                        <=> (<<x, v>> \in Range(agg_in[f]))

\* series A has points at 1 and 2, series B only at 1: the record at 2 has no B
C6_Witness ==
    /\ agg_in = [A |-> << <<1, 1>>, <<2, 9>> >>, B |-> << <<1, 9>> >>]
    /\ agg_out = Some(Ok(<< <<1, [A |-> 1, B |-> 9]>>, <<2, [A |-> 9]>> >>))

\* C7: the keys of the aggregator's output are strictly ascending and are
\* exactly the elapsed-seconds values that appear in any series, each once, and
\* no record is empty.
C7_KeysAreTheAscendingUnion ==
    (agg_out # None /\ agg_out[1].ok) =>
        LET out == agg_out[1].val
            union == {p[1] : p \in UNION {Range(agg_in[f]) : f \in DOMAIN agg_in}}
        IN  /\ \A i, j \in DOMAIN out : i < j => out[i][1] < out[j][1]
            /\ {out[i][1] : i \in DOMAIN out} = union
            /\ Len(out) = Cardinality(union)
            /\ \A i \in DOMAIN out : DOMAIN out[i][2] # {}

\* two series that share no elapsed-seconds value, given out of order
C7_Witness ==
    /\ agg_in = [A |-> << <<2, 1>> >>, B |-> << <<1, 9>> >>]
    /\ agg_out # None
    /\ agg_out[1].ok
    /\ Len(agg_out[1].val) = 2

\* C8: when a series handed to the aggregator has two points with the same
\* elapsed-seconds value, the cycle fails with an assertion error at the
\* aggregation: no record is built, sent or committed.
C8_RepeatFailsTheCycle ==
    ((\E m \in DOMAIN named_series_by_module : HasRepeat(named_series_by_module[m]))
        /\ pc \in {"deliver", "commit", "done"}) =>
        /\ pc = "done"
        /\ result = "failed"
        /\ error = "AssertionError"
        /\ ~Filtered
        /\ sink = <<>>
        /\ db = db0

\* one module's series repeats a value, the other module's series is sound
C8_Witness ==
    /\ pc = "done"
    /\ result = "failed"
    /\ DOMAIN named_series_by_module = Modules
    /\ \E m \in Modules : HasRepeat(named_series_by_module[m])
    /\ \E m \in Modules : ~HasRepeat(named_series_by_module[m])

\* C9: a batch whose charts name different time windows fails before anything
\* is aggregated, sent or committed; whenever records are given absolute
\* times, the window used is the window every chart was decoded with.
C9_MixedWindowsFail ==
    /\ ((\E i, j \in DOMAIN input_json :
            input_json[i].time_window # input_json[j].time_window)
        /\ pc \in {"aggregate", "deliver", "commit", "done"}) =>
          /\ pc = "done"
          /\ result = "failed"
          /\ time_delta = None
          /\ ~Filtered
          /\ sink = <<>>
          /\ n_writes = 0
          /\ db = db0
    /\ time_delta # None =>
          \A i \in DOMAIN input_json :
              PyIndex(time_windows, input_json[i].time_window) = Ok(time_delta[1])

\* two charts that decode and resolve on their own, of different windows
C9_Witness ==
    /\ pc = "done"
    /\ result = "failed"
    /\ error = "AssertionError"
    /\ Len(input_json) = 2
    /\ \A i \in {1, 2} : /\ input_json[i].chart_num = 2
                         /\ input_json[i].chart_url_data \in {UrlStart, UrlEnd}
    /\ input_json[1].time_window # input_json[2].time_window

\* token / 4095 * seconds rounded to the nearest integer (4095 is odd: no ties)
NearestSecond(token, seconds) ==
    LET whole == token * (seconds \div MaxToken)
        part == token * (seconds % MaxToken)
    IN  whole + (part \div MaxToken) + (IF 2 * (part % MaxToken) > MaxToken THEN 1 ELSE 0)

\* C10: the decoded elapsed seconds of token t over a window of D seconds is
\* t / 4095 * D rounded to the nearest second; token 0 gives 0, token 4095 gives D.
C10_RoundedToNearestSecond ==
    dec_out # None =>
        /\ dec_out[1] = NearestSecond(dec_token, time_windows[dec_window + 1])
        /\ dec_token = 0 => dec_out[1] = 0
        /\ dec_token = MaxToken => dec_out[1] = time_windows[dec_window + 1]

\* the field names of one entry of the table
FieldNamesOf(field) ==
    IF field.single THEN {field.name} ELSE {field.map[k] : k \in DOMAIN field.map}

\* C11: resolving a field name fails whenever chart_num is not in
\* 0..num_charts-1, and whenever the series label is not a key of a multi-series
\* chart's sub-mapping; a field name that is returned belongs to the chart that
\* chart_num names.
C11_ResolutionFailsOutsideTheTable ==
    lk_out # None =>
        LET chart_num == lk_in[1]
            series_label == lk_in[2]
            in_table == chart_num \in 0..(num_charts - 1)
            out == lk_out[1]
        IN  /\ ~in_table => ~out.ok
            /\ (in_table /\ ~label_to_field_map[chart_num + 1].field.single
                  /\ series_label \notin DOMAIN label_to_field_map[chart_num + 1].field.map)
                 => ~out.ok
            /\ out.ok => /\ in_table
                         /\ out.val \in FieldNamesOf(label_to_field_map[chart_num + 1].field)

\* a '<digits>:' marker segment and the axis index it declares
IsMarker(segment) ==
    /\ Len(segment) >= 2
    /\ segment[Len(segment)] = ":"
    /\ \A k \in 1..(Len(segment) - 1) : IsDigit(segment[k])

MarkerIndex(segment) == DigitsValue(SubSeq(segment, 1, Len(segment) - 1))

\* the label segments that follow a marker of axis i, up to the next marker;
\* cur is the index declared by the nearest marker so far, <<>> before the first
RECURSIVE LabelsAfterMarker(_, _, _)
LabelsAfterMarker(segments, cur, i) ==
    IF segments = <<>> THEN <<>>
    ELSE IF IsMarker(Head(segments))
         THEN LabelsAfterMarker(Tail(segments), Some(MarkerIndex(Head(segments))), i)
         ELSE (IF cur = Some(i) THEN <<Head(segments)>> ELSE <<>>)
                  \o LabelsAfterMarker(Tail(segments), cur, i)

\* C13: get_axis_labels maps each axis of chxt to the ordered list of exactly
\* the label segments of chxl that follow that axis's marker up to the next
\* marker; markers are never labels; and a marker whose index is not within
\* the bounds of the axis list makes the parsing fail.
C13_AxisLabelsFollowTheirMarker ==
    ax_out # None =>
        LET axes == Split(ax_in[1].chxt, ",")
            segments == Split(ax_in[1].chxl, "|")
            out == ax_out[1]
        IN  IF \E k \in DOMAIN segments :
                   IsMarker(segments[k]) /\ MarkerIndex(segments[k]) >= Len(axes)
            THEN ~out.ok
            ELSE /\ out.ok
                 /\ \A i \in DOMAIN axes :
                        out.val[axes[i]] = LabelsAfterMarker(segments, None, i - 1)

\* C12: unpack_chart_data yields no series and raises whenever chd does not
\* start with 'e:', chxt is not exactly 'x,y', twice the number of series labels
\* differs from the number of decoded token sequences, or chxl declares an axis
\* index that is out of range.
C12_MalformedChartYieldsNothing ==
    un_out # None =>
        LET chart == un_in[1]
            axes == Split(chart.chxt, ",")
            segments == Split(chart.chxl, "|")
            series_labels == IF chart.has_chdl THEN Split(chart.chdl, "|") ELSE <<NoLabel>>
            malformed ==
                \/ ~StartsWith(chart.chd, <<"e", ":">>)
                \/ chart.chxt # <<"x", ",", "y">>
                \/ 2 * Len(series_labels) # Len(chart.data)
                \/ \E k \in DOMAIN segments :
                      IsMarker(segments[k]) /\ MarkerIndex(segments[k]) >= Len(axes)
        IN  malformed => un_out[1].raised # "" /\ un_out[1].yielded = <<>>

\* the duration of the time window the cycle's charts were drawn for
WindowDuration == time_windows[input_json[1].time_window + 1]

\* the records of a list carry the timestamps download time - window duration +
\* elapsed seconds of aggregated pairs of module m, lie within the window, and
\* are in strictly ascending order of timestamp
StampedInWindow(recs, m) ==
    LET aggregated == Range(aggregate_series_by_time(named_series_by_module[m]).val)
    IN  /\ \A k \in DOMAIN recs :
              /\ \E p \in aggregated :
                    /\ TimeOf(recs[k]) = utc_timestamp - WindowDuration + p[1]
                    /\ \A f \in DOMAIN p[2] : recs[k][f] = p[2][f]
              /\ utc_timestamp - WindowDuration <= TimeOf(recs[k])
              /\ TimeOf(recs[k]) <= utc_timestamp
        /\ \A i, j \in DOMAIN recs : i < j => TimeOf(recs[i]) < TimeOf(recs[j])

\* C14: every record a cycle emits is stamped download time - window duration +
\* elapsed seconds of the aggregated pair it came from, hence within
\* [download time - window duration, download time], and the records of one
\* module are emitted in strictly ascending order of timestamp.
C14_StampedWithinTheWindowAscending ==
    Filtered =>
        /\ \A m \in DOMAIN records_by_module : StampedInWindow(records_by_module[m], m)
        /\ \A i \in DOMAIN sink : StampedInWindow(sink[i][2], sink[i][1])

\* two records of one module, both newer than a stored watermark, have been sent
C14_Witness ==
    /\ time_t_of_latest_record = Some(9000)
    /\ \E i \in DOMAIN sink :
          /\ Len(sink[i][2]) = 2
          /\ TimeOf(sink[i][2][1]) = 9900
          /\ TimeOf(sink[i][2][2]) = 10800

\* the width of one x-axis token in seconds, rounded up
Bucket == WindowDuration \div MaxToken + 1

\* C15: a record whose timestamp is greater than the stored watermark is
\* emitted, however close to the watermark (the timestamp of a record sent by
\* an earlier cycle) it lies: there is no deduplication besides the cutoff.
C15_OnlyTheCutoffDeduplicates ==
    (Filtered /\ time_t_of_latest_record # None) =>
        \A m \in DOMAIN records_by_module : \A ts \in AggregatedTimes(m) :
            ts > time_t_of_latest_record[1] =>
                /\ \E r \in Range(records_by_module[m]) : TimeOf(r) = ts
                /\ (pc = "done" /\ result = "ok" /\ ~dry_run) =>
                      \E r \in SinkRecords : TimeOf(r) = ts

\* the second of two cycles, run one second after the first with the same
\* '3 hrs' chart, has sent its end-of-window sample again, one second later than the
\* record the first cycle sent and stored as the watermark
C15_Witness ==
    /\ pc = "done" /\ result = "ok"
    /\ db0 = Some(PrintInt(10800))
    /\ utc_timestamp = 10801
    /\ \E i \in DOMAIN input_json :
          input_json[i].chart_url_data = UrlEnd /\ input_json[i].time_window = 1
    /\ \E r \in SinkRecords :
          /\ TimeOf(r) = 10801
          /\ TimeOf(r) - StoredTime(db0) <= Bucket

\* C16: over any sequence of cycles the stored watermark never decreases, and a
\* cycle that changes it stores a value strictly greater than the old one.
C16_WatermarkOnlyGrows ==
    (result \in {"running", "ok", "failed"} /\ db0 # None /\ db # db0) =>
        /\ HoldsTime(db)
        /\ HoldsTime(db0) => StoredTime(db) > StoredTime(db0)

\* C17: a run repeated with the same batch and the same download time right
\* after it completed emits no record for any module.
C17_RepeatedRunEmitsNothing ==
    rerun => \A i \in DOMAIN sink : sink[i][2] = <<>>

\* C19: every point of every decoded series of every chart of a module is
\* found, under the field name the series resolves to, in that module's
\* aggregated records; a series is not replaced by one of another chart that
\* resolves to the same field name unless the cycle fails.
C19_EverySeriesIsAggregated ==
    Filtered =>
        \A i \in DOMAIN input_json :
            LET chart_json == input_json[i]
                chart_label == label_to_field_map[chart_json.chart_num + 1].label
                chart_data == unpack_chart_data(chart_json.chart_url_data, WindowDuration).val
                aggregated ==
                    Range(aggregate_series_by_time(
                              named_series_by_module[chart_json.module]).val)
            IN  \A s \in DOMAIN chart_data :
                    LET field_name == lookup_field_name(chart_label, chart_data[s][1]).val
                        xy_pairs == chart_data[s][2]
                    IN  \A k \in DOMAIN xy_pairs :
                            \E p \in aggregated :
                                /\ p[1] = xy_pairs[k][1]
                                /\ field_name \in DOMAIN p[2]
                                /\ p[2][field_name] = xy_pairs[k][2]

\* C18 as stated: over every window of the table an x-axis token and the next
\* one decode to different elapsed seconds.
C18_Original ==
    (dec_out # None /\ dec_token < MaxToken) =>
        dec_out[1] # DecodeTime(dec_token + 1, time_windows[dec_window + 1])

\* C18: over every window of the table from '3 hrs' up, the elapsed seconds of
\* an x-axis token are less than those of the next token; the decoding is
\* strictly increasing, so distinct tokens decode to distinct elapsed seconds.
C18_DistinctFromThreeHoursUp ==
    (dec_out # None /\ dec_window >= 1 /\ dec_token < MaxToken) =>
        dec_out[1] < DecodeTime(dec_token + 1, time_windows[dec_window + 1])

\* a token of the '3 hrs' window is decoded whose successor decodes to one
\* second less than its exact quotient
C18_Witness ==
    /\ dec_window = 1
    /\ dec_token = 1182
    /\ DecodeTime(dec_token + 1, time_windows[dec_window + 1]) = 3119
    /\ dec_out = Some(3117)

====
